---- MODULE Spec2Model ----
(***************************************************************************)
(* RestDriver (src/lib/rest/RestDriver.ts): the adapter that serves the    *)
(* Thrift-shaped operation surface on top of the REST statement execution  *)
(* API.  The driver's state is its three private fields; every public      *)
(* method is one action.  The REST client is an opaque collaborator: each  *)
(* remote call either rejects or resolves with any value of its response   *)
(* type.                                                                   *)
(*                                                                         *)
(* Objects are records.  An optional property that is undefined is a field *)
(* that is absent from the record, so `obj.f !== undefined` is Has(obj,f). *)
(***************************************************************************)
EXTENDS Integers, Sequences, FiniteSets, TLC

\* ---- bounds -------------------------------------------------------------
\* number of statements the remote service accepts in one behaviour
MaxStatements == 2
\* largest chunk_index the remote service puts on a chunk it returns
MaxChunkIndex == 1

\* operations that may wait for their remote call at the same time
MaxSuspended == 2

\* driver calls one CompleteOperationHelper is followed through
MaxDriverCalls == 3

\* ---- JavaScript values --------------------------------------------------
Undefined == [undefined |-> TRUE]

Has(obj, f) == f \in DOMAIN obj

Pick(obj, fields) == [f \in (DOMAIN obj \cap fields) |-> obj[f]]

\* what a template literal prints for an optional string property
Str(obj, f) == IF Has(obj, f) THEN obj[f] ELSE "undefined"

\* ---- Types.ts / TCLIService_types as used by RestDriver.ts ---------------
StatementState == {"CANCELED", "CLOSED", "FAILED", "PENDING", "RUNNING", "SUCCEEDED"}

\* a state value the driver's switch statements do not know
UnrecognizedState == "EXPIRED"

RemoteStates == StatementState \cup {UnrecognizedState}

ColumnInfoTypeName ==
  {"ARRAY", "BINARY", "BOOLEAN", "BYTE", "CHAR", "DATE", "DECIMAL", "DOUBLE",
   "FLOAT", "INT", "INTERVAL", "LONG", "MAP", "NULL", "SHORT", "STRING",
   "STRUCT", "TIMESTAMP", "USER_DEFINED_TYPE"}

\* the mapping with Running reported as finished
restOperationStateToThriftOperationState_RunningFinished(state) ==
  CASE state = "CANCELED"  -> "CANCELED_STATE"
    [] state = "CLOSED"    -> "CLOSED_STATE"
    [] state = "FAILED"    -> "ERROR_STATE"
    [] state = "PENDING"   -> "PENDING_STATE"
    [] state = "RUNNING"   -> "FINISHED_STATE"
    [] state = "SUCCEEDED" -> "FINISHED_STATE"
    [] OTHER               -> "UKNOWN_STATE"

restOperationStateToThriftOperationState(state) ==
  CASE state = "CANCELED"  -> "CANCELED_STATE"
    [] state = "CLOSED"    -> "CLOSED_STATE"
    [] state = "FAILED"    -> "ERROR_STATE"
    [] state = "PENDING"   -> "PENDING_STATE"
    [] state = "RUNNING"   -> "RUNNING_STATE"
    [] state = "SUCCEEDED" -> "FINISHED_STATE"
    [] OTHER               -> "UKNOWN_STATE"

restTypeNameToThriftTypeId(typeName) ==
  CASE typeName = "ARRAY"             -> "ARRAY_TYPE"
    [] typeName = "BINARY"            -> "BINARY_TYPE"
    [] typeName = "BOOLEAN"           -> "BOOLEAN_TYPE"
    [] typeName = "BYTE"              -> "TINYINT_TYPE"
    [] typeName = "CHAR"              -> "CHAR_TYPE"
    [] typeName = "DATE"              -> "DATE_TYPE"
    [] typeName = "DECIMAL"           -> "DECIMAL_TYPE"
    [] typeName = "DOUBLE"            -> "DOUBLE_TYPE"
    [] typeName = "FLOAT"             -> "FLOAT_TYPE"
    [] typeName = "INT"               -> "INT_TYPE"
    [] typeName = "INTERVAL"          -> "INTERVAL_DAY_TIME_TYPE"
    [] typeName = "LONG"              -> "INT_TYPE"
    [] typeName = "MAP"               -> "MAP_TYPE"
    [] typeName = "NULL"              -> "NULL_TYPE"
    [] typeName = "SHORT"             -> "SMALLINT_TYPE"
    [] typeName = "STRING"            -> "STRING_TYPE"
    [] typeName = "STRUCT"            -> "STRUCT_TYPE"
    [] typeName = "TIMESTAMP"         -> "TIMESTAMP_TYPE"
    [] typeName = "USER_DEFINED_TYPE" -> "USER_DEFINED_TYPE"
    [] OTHER                          -> "NULL_TYPE"

\* every column filled with the first cell of the rows
ColumnValues_FirstCell(rows, j) ==
  LET sel == SelectSeq(rows, LAMBDA row : Len(row) >= j)
  IN  [k \in 1..Len(sel) |-> sel[k][1]]

\* columns[j] after the forEach: the j-th cell of every row that has one,
\* in row order
ColumnValues(rows, j) ==
  LET sel == SelectSeq(rows, LAMBDA row : Len(row) >= j)
  IN  [k \in 1..Len(sel) |-> sel[k][j]]

\* `columns[i].stringVal` with columns[i] undefined is a TypeError: a row
\* with more cells than the schema has columns makes the function throw
restJsonResultToThriftColumnar(schema, result) ==
  LET n    == Len(schema.columns)
      rows == IF Has(result, "data_array") THEN result.data_array ELSE <<>>
  IN  IF \E r \in 1..Len(rows) : Len(rows[r]) > n
      THEN [threw |-> TRUE, message |-> <<"TypeError">>]
      ELSE [threw |-> FALSE,
            value |-> [startRowOffset |-> 0,
                       rows |-> <<>>,
                       columns |-> [j \in 1..n |-> [stringVal |-> [values |-> ColumnValues(rows, j)]]],
                       columnCount |-> n]]

\* ---- what the callers send ----------------------------------------------
OpenSessionReqs ==
  {[client_protocol |-> "V5", initialNamespace |-> [catalogName |-> "c1", schemaName |-> "s1"]],
   [initialNamespace |-> [catalogName |-> "c2", schemaName |-> "s2"]]}

StatementTexts == {"SELECT 1", "SELECT 2"}

\* ---- what the REST client answers ---------------------------------------
RemoteErrors == {[error_code |-> "42", message |-> "syntax error"]}

\* A failed status carries its error: processStatementStatus reads
\* status.error.error_code unguarded.
FailedStatuses == {[state |-> "FAILED", error |-> e] : e \in RemoteErrors}

Columns ==
  <<[name |-> "id", position |-> 0, type_name |-> "LONG"],
    [name |-> "name", position |-> 1, type_name |-> "STRING"]>>

Manifests ==
  {[format |-> "JSON_ARRAY"],
   [format |-> "JSON_ARRAY", schema |-> [column_count |-> 2, columns |-> Columns]]}

DataArray == <<<<"a", "b">>, <<"c", "d">>>>

\* chunk i of a result: with a successor, the last one, and an empty last one
ChunksAt(i) ==
  {[chunk_index |-> i, next_chunk_index |-> i + 1, data_array |-> DataArray],
   [chunk_index |-> i, data_array |-> DataArray],
   [chunk_index |-> i]}

Chunks == UNION {ChunksAt(i) : i \in 0..MaxChunkIndex}

\* ---- results of every shape ---------------------------------------------
\* a type name the driver's switch does not know
UnrecognizedTypeName == "VARIANT"

DataTypeNames == ColumnInfoTypeName \cup {UnrecognizedTypeName}

ColumnNames == <<"id", "name", "flag">>

\* the manifest's description of column i (counted from 1) of a result
ColumnOf(i, typeName) ==
  [name |-> ColumnNames[i], position |-> i - 1, type_name |-> typeName]

SchemaOf(columns) == [column_count |-> Len(columns), columns |-> columns]

\* one column of every type, and results of no, two and three columns
DataSchemas ==
  {SchemaOf(<<ColumnOf(1, t)>>) : t \in DataTypeNames}
    \cup {SchemaOf(<<>>),
          SchemaOf(Columns),
          SchemaOf(<<ColumnOf(1, "SHORT"), ColumnOf(2, "INTERVAL"), ColumnOf(3, "BYTE")>>)}

\* rows of one, two and three cells, rows of unequal length, no row
DataArrays ==
  {<<>>,
   <<<<"a">>, <<"b">>>>,
   DataArray,
   <<<<"a", "b">>, <<"c">>, <<"d", "e">>>>,
   <<<<"a", "b", "c">>, <<"d", "e", "f">>>>}

\* every array as a last chunk, a chunk without rows, and two chunks with a
\* successor
DataChunks ==
  {[chunk_index |-> 0]}
    \cup {[chunk_index |-> 0, data_array |-> d] : d \in DataArrays}
    \cup {[chunk_index |-> 0, next_chunk_index |-> 1, data_array |-> d] :
            d \in {DataArray, <<<<"a", "b">>, <<"c">>, <<"d", "e">>>>}}

\* the chunks given to a statement without schema
BareChunks ==
  {[chunk_index |-> 0],
   [chunk_index |-> 0, data_array |-> <<>>],
   [chunk_index |-> 0, data_array |-> <<<<"a">>, <<"b">>>>],
   [chunk_index |-> 0, next_chunk_index |-> 1, data_array |-> DataArray]}

\* succeeded statements: every schema with a chunk of one-cell rows, and the
\* schemas of no, two and three columns with every chunk, and statements
\* without schema or without manifest
DataBodies ==
  LET wide  == {s \in DataSchemas : Len(s.columns) # 1}
      done  == [status |-> [state |-> "SUCCEEDED"]]
      rows1 == [chunk_index |-> 0, data_array |-> <<<<"a">>, <<"b">>>>]
  IN  {done @@ [manifest |-> [format |-> "JSON_ARRAY", schema |-> s], result |-> rows1] :
         s \in DataSchemas}
        \cup {done @@ [manifest |-> [format |-> "JSON_ARRAY", schema |-> s], result |-> c] :
                s \in wide, c \in DataChunks}
        \cup {done @@ [manifest |-> [format |-> "JSON_ARRAY"], result |-> c] : c \in BareChunks}
        \cup {done @@ [result |-> c] : c \in BareChunks}

Rejected == [rejected |-> TRUE]

\* {status, manifest?, result?}: the part of the response that getStatement
\* and executeStatement share.  The REST service attaches a manifest only to
\* a statement that has finished (succeeded or failed) and a result only to
\* one that succeeded.
StatementBodies ==
  LET opt(f, S) == {[none |-> TRUE]} \cup {[none |-> TRUE] @@ (f :> v) : v \in S}
      manifests == opt("manifest", Manifests)
      results   == opt("result", ChunksAt(0))
  IN  {[status |-> [state |-> s]] : s \in RemoteStates \ {"FAILED", "SUCCEEDED"}}
        \cup {[status |-> st] @@ Pick(m, {"manifest"}) :
                st \in FailedStatuses, m \in manifests}
        \cup {([status |-> [state |-> "SUCCEEDED"]] @@ Pick(m, {"manifest"})) @@ Pick(r, {"result"}) :
                m \in manifests, r \in results}

\* an execute call resolves with a statement body or rejects; the statement
\* id is assigned by the remote service when the call resolves
ExecuteOutcomes == StatementBodies \cup {Rejected}

GetStatementOutcomes == StatementBodies \cup {Rejected}

\* getStatementResultChunkN resolves with a chunk or with nothing, or rejects
ChunkOutcomes == Chunks \cup {Undefined, Rejected}

CancelOutcomes == {[ack |-> TRUE], Rejected}

RemoteFailure == <<"remote call failed">>

WarehouseId == "warehouse"

\* ---- responses ----------------------------------------------------------
Return(resp) == [raised |-> FALSE, value |-> resp]

Raise(msg) == [raised |-> TRUE, message |-> msg]

SuccessStatus == [statusCode |-> "SUCCESS_STATUS"]

ErrorStatus(msg) == [statusCode |-> "ERROR_STATUS", errorMessage |-> <<msg>>]

InvalidHandleStatus == [statusCode |-> "INVALID_HANDLE_STATUS"]

NotImplementedError == <<"RestDriver: Method not implemented">>

Opt(name, obj, f) == IF Has(obj, f) THEN (name :> obj[f]) ELSE [x \in {} |-> x]

\* ---- state --------------------------------------------------------------
VARIABLES
  session,             \* RestDriver.session
  currentStatement,    \* RestDriver.currentStatement
  currentResultChunk,  \* RestDriver.currentResultChunk
  issued,              \* statements the remote service has accepted so far
  lastOp,              \* the operation that ran last
  lastRequest,         \* the request it was given (the part the method reads)
  lastCalls,           \* the remote calls that operation issued, in order
  lastReplies,         \* what the REST client answered to each of them
  lastResp,            \* what it returned or raised
  prevFetch,           \* outcome of the latest fetchResults on the tracked statement
  inARow,              \* 1 after a cancelOperation / closeOperation that stopped tracking
                       \* a statement, 2 after the same operation called again right
                       \* after it (and again, and so on), 0 otherwise
  suspended,           \* the operations waiting for their remote call, oldest first
  helper               \* a CompleteOperationHelper and the driver it talks to

driverVars == <<session, currentStatement, currentResultChunk, issued,
                lastOp, lastRequest, lastCalls, lastReplies, lastResp, prevFetch, inARow>>

vars == <<driverVars, suspended, helper>>

NoFetch == [fetched |-> FALSE]

\* the chunk it consumed (none if it obtained none) and its response
Fetched(chunk, response) == [fetched |-> TRUE, chunk |-> chunk, response |-> response]

Init ==
  /\ session = Undefined
  /\ currentStatement = Undefined
  /\ currentResultChunk = Undefined
  /\ issued = 0
  /\ lastOp = "constructor"
  /\ lastRequest = Undefined
  /\ lastCalls = <<>>
  /\ lastReplies = <<>>
  /\ lastResp = Return(Undefined)
  /\ prevFetch = NoFetch
  /\ inARow = 0
  /\ suspended = <<>>
  /\ helper = Undefined

\* ---- processStatementStatus ---------------------------------------------
\* processStatementStatus without the `case StatementState.Closed:` label
processStatementStatus_ClosedKept(statement, status) ==
  CASE status.state = "CANCELED" ->
         [currentStatement |-> Undefined, threw |-> FALSE]
    [] status.state = "FAILED" ->
         [currentStatement |-> statement, threw |-> TRUE,
          message |-> <<status.error.error_code, ": ", status.error.message>>]
    [] OTHER ->
         [currentStatement |-> statement, threw |-> FALSE]

\* the statement left in this.currentStatement and whether the method threw
processStatementStatus(statement, status) ==
  CASE status.state \in {"CANCELED", "CLOSED"} ->
         [currentStatement |-> Undefined, threw |-> FALSE]
    [] status.state = "FAILED" ->
         [currentStatement |-> statement, threw |-> TRUE,
          message |-> <<status.error.error_code, ": ", status.error.message>>]
    [] OTHER ->
         [currentStatement |-> statement, threw |-> FALSE]

\* ---- session emulation --------------------------------------------------
DefaultProtocol == "SPARK_CLI_SERVICE_PROTOCOL_V6"

openSession ==
  \E request \in OpenSessionReqs :
    /\ session' = request
    /\ lastOp' = "openSession"
    /\ lastRequest' = request
    /\ UNCHANGED <<suspended, helper>>
    /\ inARow' = 0
    /\ lastCalls' = <<>>
    /\ lastReplies' = <<>>
    /\ lastResp' = Return([status |-> SuccessStatus,
                           serverProtocolVersion |->
                             IF Has(request, "client_protocol")
                             THEN request.client_protocol ELSE DefaultProtocol,
                           sessionHandle |-> [sessionId |-> "guid"]])
    /\ UNCHANGED <<currentStatement, currentResultChunk, issued, prevFetch>>

closeSession ==
  /\ session' = Undefined
  /\ lastOp' = "closeSession"
  /\ lastRequest' = Undefined
  /\ UNCHANGED <<suspended, helper>>
  /\ inARow' = 0
  /\ lastCalls' = <<>>
  /\ lastReplies' = <<>>
  /\ lastResp' = Return([status |-> SuccessStatus])
  /\ UNCHANGED <<currentStatement, currentResultChunk, issued, prevFetch>>

\* ---- executeStatement ---------------------------------------------------
\* the execute request without the namespace of the session
ExecuteCall_NoNamespace(request) ==
  [method |-> "executeStatement",
   disposition |-> "INLINE",
   format |-> "JSON_ARRAY",
   on_wait_timeout |-> "CONTINUE",
   wait_timeout |-> "5s",
   warehouse_id |-> WarehouseId,
   statement |-> request.statement]

ExecuteCall(request) ==
  LET ns == IF Has(session, "initialNamespace") THEN session.initialNamespace ELSE Undefined
  IN  ([method |-> "executeStatement",
        disposition |-> "INLINE",
        format |-> "JSON_ARRAY",
        on_wait_timeout |-> "CONTINUE",
        wait_timeout |-> "5s",
        warehouse_id |-> WarehouseId,
        statement |-> request.statement]
        @@ Opt("catalog", ns, "catalogName")) @@ Opt("schema", ns, "schemaName")

executeStatementWith(texts, outcomes) ==
  \E text \in texts, outcome \in outcomes :
    LET request == [statement |-> text]
    IN  /\ issued < MaxStatements
        /\ lastOp' = "executeStatement"
        /\ lastRequest' = request
        /\ UNCHANGED <<suspended, helper>>
        /\ inARow' = 0
        /\ lastCalls' = <<ExecuteCall(request)>>
        /\ lastReplies' = <<outcome>>
        /\ UNCHANGED <<session, currentResultChunk>>
        /\ IF outcome = Rejected
           THEN /\ lastResp' = Raise(RemoteFailure)
                /\ UNCHANGED <<currentStatement, issued, prevFetch>>
           ELSE LET response == [statement_id |-> issued + 1] @@ Pick(outcome, {"status", "manifest", "result"})
                    p == processStatementStatus(response, response.status)
                    cs == p.currentStatement
                IN  /\ issued' = issued + 1
                    /\ currentStatement' = cs
                    /\ prevFetch' = NoFetch
                    /\ lastResp' =
                         IF p.threw THEN Raise(p.message)
                         ELSE IF cs = Undefined
                         THEN Return([status |-> InvalidHandleStatus])
                         ELSE Return([status |-> SuccessStatus,
                                      operationHandle |->
                                        [operationType |-> "EXECUTE_STATEMENT",
                                         hasResultSet |-> Has(cs, "result") /\ Has(cs.result, "chunk_index")]])

executeStatement == executeStatementWith(StatementTexts, ExecuteOutcomes)

\* ---- getResultSetMetadata -----------------------------------------------
ManifestColumns(statement) ==
  IF Has(statement, "manifest") /\ Has(statement.manifest, "schema")
     /\ Has(statement.manifest.schema, "columns")
  THEN statement.manifest.schema.columns
  ELSE <<>>

\* the position as the manifest counts it, from zero
ColumnPosition_ZeroBased(column) == column.position

ColumnPosition(column) == column.position + 1

ColumnDesc(column) ==
  [columnName |-> column.name,
   position |-> ColumnPosition(column),
   typeDesc |-> [types |-> <<[primitiveEntry |-> [type |-> restTypeNameToThriftTypeId(column.type_name)]]>>]]

getResultSetMetadata ==
  /\ lastOp' = "getResultSetMetadata"
  /\ lastRequest' = Undefined
  /\ UNCHANGED <<suspended, helper>>
  /\ inARow' = 0
  /\ lastCalls' = <<>>
  /\ lastReplies' = <<>>
  /\ lastResp' =
       IF currentStatement = Undefined
       THEN Return([status |-> ErrorStatus("Invalid handle")])
       ELSE LET cols == ManifestColumns(currentStatement)
            IN  Return([status |-> SuccessStatus,
                        resultFormat |-> "COLUMN_BASED_SET",
                        schema |-> [columns |-> [i \in 1..Len(cols) |-> ColumnDesc(cols[i])]]])
  /\ UNCHANGED <<session, currentStatement, currentResultChunk, issued, prevFetch>>

\* ---- fetchResults -------------------------------------------------------
\* line 284: the chunk cursor is empty, so the statement's own result is taken
TakesStatementResult(chunk) == chunk = Undefined

\* line 289 with chunk_index in place of next_chunk_index
ChunkCall_SameChunk(statement, chunk) ==
  [method |-> "getStatementResultChunkN", statement_id |-> statement.statement_id]
    @@ Opt("chunk_index", chunk, "chunk_index")

ChunkCall(statement, chunk) ==
  [method |-> "getStatementResultChunkN", statement_id |-> statement.statement_id]
    @@ Opt("chunk_index", chunk, "next_chunk_index")

FetchSchema(statement) ==
  IF Has(statement, "manifest") /\ Has(statement.manifest, "schema")
  THEN statement.manifest.schema
  ELSE [column_count |-> 0, columns |-> <<>>]

\* lines 293-297 answering an empty row set instead of the error status
FetchResponse_EmptySuccess(statement, chunk) ==
  IF chunk = Undefined
  THEN Return([status |-> SuccessStatus,
               hasMoreRows |-> FALSE,
               results |-> [startRowOffset |-> 0, rows |-> <<>>, columns |-> <<>>, columnCount |-> 0]])
  ELSE LET conv == restJsonResultToThriftColumnar(FetchSchema(statement), chunk)
       IN  IF conv.threw THEN Raise(conv.message)
           ELSE Return([status |-> SuccessStatus,
                        hasMoreRows |-> Has(chunk, "next_chunk_index"),
                        results |-> conv.value])

FetchResponse(statement, chunk) ==
  IF chunk = Undefined
  THEN Return([status |-> ErrorStatus("No more data")])
  ELSE LET conv == restJsonResultToThriftColumnar(FetchSchema(statement), chunk)
       IN  IF conv.threw THEN Raise(conv.message)
           ELSE Return([status |-> SuccessStatus,
                        hasMoreRows |-> Has(chunk, "next_chunk_index"),
                        results |-> conv.value])

fetchResults ==
  /\ lastOp' = "fetchResults"
  /\ lastRequest' = Undefined
  /\ UNCHANGED <<suspended, helper>>
  /\ inARow' = 0
  /\ UNCHANGED <<session, currentStatement, issued>>
  /\ IF currentStatement = Undefined
     THEN /\ lastCalls' = <<>>
          /\ lastReplies' = <<>>
          /\ lastResp' = Return([status |-> ErrorStatus("Invalid handle")])
          /\ UNCHANGED <<currentResultChunk, prevFetch>>
     ELSE IF TakesStatementResult(currentResultChunk)
     THEN LET chunk == IF Has(currentStatement, "result")
                       THEN currentStatement.result ELSE Undefined
          IN  /\ lastCalls' = <<>>
              /\ lastReplies' = <<>>
              /\ currentResultChunk' = chunk
              /\ lastResp' = FetchResponse(currentStatement, chunk)
              /\ prevFetch' = Fetched(chunk, lastResp')
     ELSE \E outcome \in ChunkOutcomes :
            /\ lastCalls' = <<ChunkCall(currentStatement, currentResultChunk)>>
            /\ lastReplies' = <<outcome>>
            /\ IF outcome = Rejected
               THEN /\ lastResp' = Raise(RemoteFailure)
                    /\ prevFetch' = Fetched(Undefined, lastResp')
                    /\ UNCHANGED currentResultChunk
               ELSE /\ currentResultChunk' = outcome
                    /\ lastResp' = FetchResponse(currentStatement, outcome)
                    /\ prevFetch' = Fetched(outcome, lastResp')

\* ---- the unsupported surface --------------------------------------------
UnsupportedOps ==
  {"getInfo", "getTypeInfo", "getCatalogs", "getSchemas", "getTables",
   "getTableTypes", "getColumns", "getFunctions", "getPrimaryKeys",
   "getCrossReference", "getDelegationToken", "cancelDelegationToken",
   "renewDelegationToken"}

\* an unsupported method answering an empty success instead of throwing
notImplemented_EmptySuccess ==
  \E op \in UnsupportedOps :
    /\ lastOp' = op
    /\ lastRequest' = Undefined
    /\ UNCHANGED <<suspended, helper>>
    /\ inARow' = 0
    /\ lastCalls' = <<>>
    /\ lastReplies' = <<>>
    /\ lastResp' = Return([status |-> SuccessStatus])
    /\ UNCHANGED <<session, currentStatement, currentResultChunk, issued, prevFetch>>

notImplemented ==
  \E op \in UnsupportedOps :
    /\ lastOp' = op
    /\ lastRequest' = Undefined
    /\ UNCHANGED <<suspended, helper>>
    /\ inARow' = 0
    /\ lastCalls' = <<>>
    /\ lastReplies' = <<>>
    /\ lastResp' = Raise(NotImplementedError)
    /\ UNCHANGED <<session, currentStatement, currentResultChunk, issued, prevFetch>>

\* ---- getOperationStatus -------------------------------------------------
\* line 352 without the `!this.currentStatement.manifest` test
NeedsPoll_Always(statement) == statement # Undefined

\* line 352
NeedsPoll(statement) == statement # Undefined /\ ~Has(statement, "manifest")

GetStatementCall(statement) ==
  [method |-> "getStatement", statement_id |-> statement.statement_id]

\* lines 354-356: the three properties are overwritten, the others kept
Refreshed(statement, response) ==
  Pick(response, {"status", "manifest", "result"})
    @@ [f \in DOMAIN statement \ {"status", "manifest", "result"} |-> statement[f]]

\* lines 363-367 answering as executeStatement does at lines 227-231
StatusResponse_InvalidHandleCode(statement) ==
  IF statement = Undefined
  THEN Return([status |-> InvalidHandleStatus])
  ELSE Return([status |-> SuccessStatus,
               operationState |-> restOperationStateToThriftOperationState(statement.status.state),
               errorCode |-> 0,
               errorMessage |->
                 LET error == IF Has(statement.status, "error")
                              THEN statement.status.error ELSE Undefined
                 IN  <<Str(error, "error_code"), ": ", Str(error, "message")>>,
               hasResultSet |-> Has(statement, "result")])

StatusResponse(statement) ==
  IF statement = Undefined
  THEN Return([status |-> ErrorStatus("Invalid handle")])
  ELSE Return([status |-> SuccessStatus,
               operationState |-> restOperationStateToThriftOperationState(statement.status.state),
               errorCode |-> 0,
               errorMessage |->
                 LET error == IF Has(statement.status, "error")
                              THEN statement.status.error ELSE Undefined
                 IN  <<Str(error, "error_code"), ": ", Str(error, "message")>>,
               hasResultSet |-> Has(statement, "result")])

getOperationStatus ==
  /\ lastOp' = "getOperationStatus"
  /\ lastRequest' = Undefined
  /\ UNCHANGED <<suspended, helper>>
  /\ inARow' = 0
  /\ UNCHANGED <<session, currentResultChunk, issued>>
  /\ IF NeedsPoll(currentStatement)
     THEN \E outcome \in GetStatementOutcomes :
            /\ lastCalls' = <<GetStatementCall(currentStatement)>>
            /\ lastReplies' = <<outcome>>
            /\ IF outcome = Rejected
               THEN /\ lastResp' = Raise(RemoteFailure)
                    /\ UNCHANGED <<currentStatement, prevFetch>>
               ELSE LET refreshed == Refreshed(currentStatement, outcome)
                        p == processStatementStatus(refreshed, refreshed.status)
                    IN  /\ currentStatement' = p.currentStatement
                        /\ prevFetch' = IF p.currentStatement = Undefined THEN NoFetch ELSE prevFetch
                        /\ lastResp' = IF p.threw THEN Raise(p.message)
                                       ELSE StatusResponse(p.currentStatement)
     ELSE /\ lastCalls' = <<>>
          /\ lastReplies' = <<>>
          /\ lastResp' = StatusResponse(currentStatement)
          /\ UNCHANGED <<currentStatement, prevFetch>>

\* ---- cancelOperation / closeOperation -----------------------------------
\* inARow after `op` has found no statement tracked
Again(op) == IF lastOp = op /\ inARow >= 1 THEN 2 ELSE 0

\* lines 380-382 without the statement id
CancelCall_NoId(statement) == [method |-> "cancelExecution"]

CancelCall(statement) ==
  [method |-> "cancelExecution", statement_id |-> statement.statement_id]

\* lines 379-385 with the statement forgotten before the remote call is awaited
cancelOperation_ForgetsFirst ==
  /\ lastOp' = "cancelOperation"
  /\ lastRequest' = Undefined
  /\ UNCHANGED <<suspended, helper>>
  /\ UNCHANGED <<session, currentResultChunk, issued>>
  /\ IF currentStatement # Undefined
     THEN \E outcome \in CancelOutcomes :
            /\ lastCalls' = <<CancelCall(currentStatement)>>
            /\ lastReplies' = <<outcome>>
            /\ currentStatement' = Undefined
            /\ prevFetch' = NoFetch
            /\ IF outcome = Rejected
               THEN /\ lastResp' = Raise(RemoteFailure)
                    /\ inARow' = 0
               ELSE /\ inARow' = 1
                    /\ lastResp' = Return([status |-> SuccessStatus])
     ELSE /\ lastCalls' = <<>>
          /\ lastReplies' = <<>>
          /\ lastResp' = Return([status |-> SuccessStatus])
          /\ inARow' = Again("cancelOperation")
          /\ UNCHANGED <<currentStatement, prevFetch>>

cancelOperation ==
  /\ lastOp' = "cancelOperation"
  /\ lastRequest' = Undefined
  /\ UNCHANGED <<suspended, helper>>
  /\ UNCHANGED <<session, currentResultChunk, issued>>
  /\ IF currentStatement # Undefined
     THEN \E outcome \in CancelOutcomes :
            /\ lastCalls' = <<CancelCall(currentStatement)>>
            /\ lastReplies' = <<outcome>>
            /\ IF outcome = Rejected
               THEN /\ lastResp' = Raise(RemoteFailure)
                    /\ inARow' = 0
                    /\ UNCHANGED <<currentStatement, prevFetch>>
               ELSE /\ currentStatement' = Undefined
                    /\ prevFetch' = NoFetch
                    /\ inARow' = 1
                    /\ lastResp' = Return([status |-> SuccessStatus])
     ELSE /\ lastCalls' = <<>>
          /\ lastReplies' = <<>>
          /\ lastResp' = Return([status |-> SuccessStatus])
          /\ inARow' = Again("cancelOperation")
          /\ UNCHANGED <<currentStatement, prevFetch>>

\* closeOperation going through the remote cancel, as cancelOperation does
closeOperation_Remote ==
  /\ lastOp' = "closeOperation"
  /\ lastRequest' = Undefined
  /\ UNCHANGED <<suspended, helper>>
  /\ UNCHANGED <<session, currentResultChunk, issued>>
  /\ currentStatement' = Undefined
  /\ prevFetch' = NoFetch
  /\ inARow' = IF currentStatement # Undefined THEN 1 ELSE Again("closeOperation")
  /\ lastCalls' = IF currentStatement # Undefined THEN <<CancelCall(currentStatement)>> ELSE <<>>
  /\ lastReplies' = IF currentStatement # Undefined THEN <<[ack |-> TRUE]>> ELSE <<>>
  /\ lastResp' = Return([status |-> SuccessStatus])

closeOperation ==
  /\ lastOp' = "closeOperation"
  /\ lastRequest' = Undefined
  /\ UNCHANGED <<suspended, helper>>
  /\ lastCalls' = <<>>
  /\ lastReplies' = <<>>
  /\ currentStatement' = Undefined
  /\ prevFetch' = NoFetch
  /\ inARow' = IF currentStatement # Undefined THEN 1 ELSE Again("closeOperation")
  /\ lastResp' = Return([status |-> SuccessStatus])
  /\ UNCHANGED <<session, currentResultChunk, issued>>

\* ---- the driver ---------------------------------------------------------
Next ==
  \/ openSession
  \/ closeSession
  \/ executeStatement
  \/ getResultSetMetadata
  \/ fetchResults
  \/ notImplemented
  \/ getOperationStatus
  \/ cancelOperation
  \/ closeOperation

Spec == Init /\ [][Next]_vars

\* ======================================================================
\* Properties
\* ======================================================================
\* ---- the driver on results of every shape --------------------------------
executeStatementOfData == executeStatementWith({"SELECT 1"}, DataBodies)

DataNext ==
  \/ executeStatementOfData
  \/ getResultSetMetadata
  \/ fetchResults
  \/ getOperationStatus
  \/ closeOperation

DataSpec == Init /\ [][DataNext]_vars

\* ---- the driver with its operations suspended at their await -------------
\* The methods are async functions and the class holds no lock or queue: a
\* method runs up to its await, and until the promise settles the caller is
\* free to call any other method of the driver.

\* what the remote service answers in this specification
AsyncBodies ==
  {[status |-> [state |-> "PENDING"]],
   [status |-> [state |-> "CANCELED"]],
   [status |-> [state |-> "SUCCEEDED"],
    manifest |-> [format |-> "JSON_ARRAY", schema |-> SchemaOf(Columns)],
    result |-> [chunk_index |-> 0, next_chunk_index |-> 1, data_array |-> DataArray]]}

AsyncStatementOutcomes == AsyncBodies \cup {Rejected}

AsyncChunkOutcomes == {[chunk_index |-> 1, data_array |-> DataArray], Undefined, Rejected}

\* what the caller holds while the operation is suspended: a pending promise
Awaiting == [raised |-> FALSE, awaiting |-> TRUE]

\* reading or writing a property of this.currentStatement when it is undefined
StatementTypeError == <<"TypeError", "this.currentStatement is undefined">>

Without(seq, i) == [k \in 1..(Len(seq) - 1) |-> IF k < i THEN seq[k] ELSE seq[k + 1]]

SuspendedOf(op) == {i \in 1..Len(suspended) : suspended[i].op = op}

\* the method has run up to its await: the call is issued, nothing is assigned
Suspend(op, request, call) ==
  /\ Len(suspended) < MaxSuspended
  /\ suspended' = Append(suspended, [op |-> op, call |-> call, started |-> currentStatement])
  /\ lastOp' = op
  /\ lastRequest' = request
  /\ lastCalls' = <<call>>
  /\ lastReplies' = <<>>
  /\ lastResp' = Awaiting
  /\ inARow' = 0
  /\ UNCHANGED <<session, currentStatement, currentResultChunk, issued, prevFetch, helper>>

\* lines 379-382 with the statement forgotten before the await
callCancelOperation_ForgetsFirst ==
  IF currentStatement # Undefined
  THEN /\ Len(suspended) < MaxSuspended
       /\ suspended' = Append(suspended, [op |-> "cancelOperation",
                                          call |-> CancelCall(currentStatement),
                                          started |-> currentStatement])
       /\ currentStatement' = Undefined
       /\ lastOp' = "cancelOperation"
       /\ lastRequest' = Undefined
       /\ lastCalls' = <<CancelCall(currentStatement)>>
       /\ lastReplies' = <<>>
       /\ lastResp' = Awaiting
       /\ inARow' = 0
       /\ UNCHANGED <<session, currentResultChunk, issued, prevFetch, helper>>
  ELSE cancelOperation

callExecuteStatement ==
  \E text \in StatementTexts :
    /\ issued + Cardinality(SuspendedOf("executeStatement")) < MaxStatements
    /\ Suspend("executeStatement", [statement |-> text], ExecuteCall([statement |-> text]))

\* lines 214 (the assignment) to 243
resumeExecuteStatement ==
  \E i \in SuspendedOf("executeStatement"), outcome \in AsyncStatementOutcomes :
    /\ suspended' = Without(suspended, i)
    /\ lastOp' = "executeStatement"
    /\ lastRequest' = Undefined
    /\ lastCalls' = <<>>
    /\ lastReplies' = <<outcome>>
    /\ inARow' = 0
    /\ UNCHANGED <<session, currentResultChunk, helper>>
    /\ IF outcome = Rejected
       THEN /\ lastResp' = Raise(RemoteFailure)
            /\ UNCHANGED <<currentStatement, issued, prevFetch>>
       ELSE LET response == [statement_id |-> issued + 1] @@ Pick(outcome, {"status", "manifest", "result"})
                p == processStatementStatus(response, response.status)
                cs == p.currentStatement
            IN  /\ issued' = issued + 1
                /\ currentStatement' = cs
                /\ prevFetch' = NoFetch
                /\ lastResp' =
                     IF p.threw THEN Raise(p.message)
                     ELSE IF cs = Undefined
                     THEN Return([status |-> InvalidHandleStatus])
                     ELSE Return([status |-> SuccessStatus,
                                  operationHandle |->
                                    [operationType |-> "EXECUTE_STATEMENT",
                                     hasResultSet |-> Has(cs, "result") /\ Has(cs.result, "chunk_index")]])

\* lines 352-353 up to the await; without a poll the method has no await
callGetOperationStatus ==
  IF NeedsPoll(currentStatement)
  THEN Suspend("getOperationStatus", Undefined, GetStatementCall(currentStatement))
  ELSE getOperationStatus

\* lines 354-375: the response is written into whatever this.currentStatement
\* is now; writing into undefined is a TypeError
resumeGetOperationStatus ==
  \E i \in SuspendedOf("getOperationStatus"), outcome \in AsyncStatementOutcomes :
    /\ suspended' = Without(suspended, i)
    /\ lastOp' = "getOperationStatus"
    /\ lastRequest' = Undefined
    /\ lastCalls' = <<>>
    /\ lastReplies' = <<outcome>>
    /\ inARow' = 0
    /\ UNCHANGED <<session, currentResultChunk, issued, helper>>
    /\ IF outcome = Rejected
       THEN /\ lastResp' = Raise(RemoteFailure)
            /\ UNCHANGED <<currentStatement, prevFetch>>
       ELSE IF currentStatement = Undefined
       THEN /\ lastResp' = Raise(StatementTypeError)
            /\ UNCHANGED <<currentStatement, prevFetch>>
       ELSE LET refreshed == Refreshed(currentStatement, outcome)
                p == processStatementStatus(refreshed, refreshed.status)
            IN  /\ currentStatement' = p.currentStatement
                /\ prevFetch' = IF p.currentStatement = Undefined THEN NoFetch ELSE prevFetch
                /\ lastResp' = IF p.threw THEN Raise(p.message)
                               ELSE StatusResponse(p.currentStatement)

\* lines 278-290 up to the await; the first fetch of a cursor has no await
callFetchResults ==
  IF currentStatement # Undefined /\ ~TakesStatementResult(currentResultChunk)
  THEN Suspend("fetchResults", Undefined, ChunkCall(currentStatement, currentResultChunk))
  ELSE fetchResults

\* lines 287 (the assignment) to 308: the schema is read from whatever
\* this.currentStatement is now; reading it from undefined is a TypeError
resumeFetchResults ==
  \E i \in SuspendedOf("fetchResults"), outcome \in AsyncChunkOutcomes :
    /\ suspended' = Without(suspended, i)
    /\ lastOp' = "fetchResults"
    /\ lastRequest' = Undefined
    /\ lastCalls' = <<>>
    /\ lastReplies' = <<outcome>>
    /\ inARow' = 0
    /\ UNCHANGED <<session, currentStatement, issued, helper>>
    /\ IF outcome = Rejected
       THEN /\ lastResp' = Raise(RemoteFailure)
            /\ prevFetch' = Fetched(Undefined, lastResp')
            /\ UNCHANGED currentResultChunk
       ELSE /\ currentResultChunk' = outcome
            /\ lastResp' = IF outcome # Undefined /\ currentStatement = Undefined
                           THEN Raise(StatementTypeError)
                           ELSE FetchResponse(currentStatement, outcome)
            /\ prevFetch' = Fetched(outcome, lastResp')

\* lines 379-382 up to the await; without a statement the method has no await
callCancelOperation ==
  IF currentStatement # Undefined
  THEN Suspend("cancelOperation", Undefined, CancelCall(currentStatement))
  ELSE cancelOperation

\* lines 383-387
resumeCancelOperation ==
  \E i \in SuspendedOf("cancelOperation"), outcome \in CancelOutcomes :
    /\ suspended' = Without(suspended, i)
    /\ lastOp' = "cancelOperation"
    /\ lastRequest' = Undefined
    /\ lastCalls' = <<>>
    /\ lastReplies' = <<outcome>>
    /\ UNCHANGED <<session, currentResultChunk, issued, helper>>
    /\ IF outcome = Rejected
       THEN /\ lastResp' = Raise(RemoteFailure)
            /\ inARow' = 0
            /\ UNCHANGED <<currentStatement, prevFetch>>
       ELSE /\ currentStatement' = Undefined
            /\ prevFetch' = NoFetch
            /\ inARow' = 1
            /\ lastResp' = Return([status |-> SuccessStatus])

AsyncNext ==
  \/ callExecuteStatement
  \/ resumeExecuteStatement
  \/ callGetOperationStatus
  \/ resumeGetOperationStatus
  \/ callFetchResults
  \/ resumeFetchResults
  \/ callCancelOperation
  \/ resumeCancelOperation
  \/ closeOperation

AsyncSpec == Init /\ [][AsyncNext]_vars

\* ---- CompleteOperationHelper ---------------------------------------------
OperationHandles == {"handle-1", "handle-2"}

\* status codes of a close or cancel response
SuccessCodes == {"SUCCESS_STATUS", "SUCCESS_WITH_INFO_STATUS"}

ErrorCodes == {"ERROR_STATUS", "INVALID_HANDLE_STATUS"}

DriverResponses == {[status |-> [statusCode |-> c]] : c \in SuccessCodes \cup ErrorCodes}

\* the driver resolves with a response or rejects
DriverOutcomes == DriverResponses \cup {Rejected}

\* Status.assert(status) returns for a successful status and throws for any
\* other
StatusAssertPasses(status) == status.statusCode \in SuccessCodes

StatusError(status) == <<"StatusError", status.statusCode>>

\* Status.success()
StatusSuccess == [statusCode |-> "SUCCESS_STATUS"]

DriverCall(method) == [method |-> method, operationHandle |-> helper.operationHandle]

\* the helper after one of its methods has run; calls, reply and resp are the
\* driver calls the method issued, the driver's answer and the method's
\* outcome; driverCalls counts the calls the helper has made to the driver and
\* succeeded those the driver has answered with a successful status
Helped(op, flags, calls, reply, resp) ==
  [helper EXCEPT !.closed = flags.closed,
                 !.cancelled = flags.cancelled,
                 !.lastOp = op,
                 !.calls = calls,
                 !.reply = reply,
                 !.resp = resp,
                 !.driverCalls = @ + Len(calls),
                 !.succeeded = [m \in DOMAIN @ |->
                                  @[m] + Cardinality({i \in 1..Len(calls) :
                                           calls[i].method = m /\ reply \in DriverResponses
                                             /\ reply.status.statusCode \in SuccessCodes})]]

\* lines 14-22: `new CompleteOperationHelper(driver, handle, closeOperation?)`,
\* closeResponse being the closeOperation argument; a failing Status.assert
\* throws out of the constructor and leaves no helper behind
CompleteOperationHelper ==
  /\ helper = Undefined
  /\ \E handle \in OperationHandles, closeResponse \in DriverResponses \cup {Undefined} :
       /\ closeResponse # Undefined => StatusAssertPasses(closeResponse.status)
       /\ helper' = [operationHandle |-> handle,
                     closed |-> closeResponse # Undefined,
                     cancelled |-> FALSE,
                     lastOp |-> "constructor",
                     calls |-> <<>>,
                     reply |-> closeResponse,
                     resp |-> Return(Undefined),
                     driverCalls |-> 0,
                     succeeded |-> [cancelOperation |-> 0, closeOperation |-> 0]]
  /\ UNCHANGED <<driverVars, suspended>>

\* the method `method` of the helper, guarded by `flag`: lines 24-35 and 37-48
Complete(method, flag, driverMethod) ==
  /\ helper # Undefined
  /\ IF helper[flag]
     THEN helper' = Helped(method, helper, <<>>, Undefined, Return(StatusSuccess))
     ELSE /\ helper.driverCalls < MaxDriverCalls
          /\ \E outcome \in DriverOutcomes :
               LET calls == <<DriverCall(driverMethod)>>
               IN  helper' =
                     IF outcome = Rejected
                     THEN Helped(method, helper, calls, outcome, Raise(RemoteFailure))
                     ELSE IF ~StatusAssertPasses(outcome.status)
                     THEN Helped(method, helper, calls, outcome, Raise(StatusError(outcome.status)))
                     ELSE Helped(method, [helper EXCEPT ![flag] = TRUE], calls, outcome,
                                 Return(outcome.status))
  /\ UNCHANGED <<driverVars, suspended>>

\* lines 37-48 with the flag set before the status is asserted
close_SetsFlagFirst ==
  /\ helper # Undefined
  /\ IF helper.closed
     THEN helper' = Helped("close", helper, <<>>, Undefined, Return(StatusSuccess))
     ELSE /\ helper.driverCalls < MaxDriverCalls
          /\ \E outcome \in DriverOutcomes :
               LET calls == <<DriverCall("closeOperation")>>
                   set == [helper EXCEPT !.closed = TRUE]
               IN  helper' =
                     IF outcome = Rejected
                     THEN Helped("close", helper, calls, outcome, Raise(RemoteFailure))
                     ELSE IF ~StatusAssertPasses(outcome.status)
                     THEN Helped("close", set, calls, outcome, Raise(StatusError(outcome.status)))
                     ELSE Helped("close", set, calls, outcome, Return(outcome.status))
  /\ UNCHANGED <<driverVars, suspended>>

cancel == Complete("cancel", "cancelled", "cancelOperation")

close == Complete("close", "closed", "closeOperation")

HelperNext ==
  \/ CompleteOperationHelper
  \/ cancel
  \/ close

HelperSpec == Init /\ [][HelperNext]_vars

Tracked == currentStatement # Undefined

Contains(message, part) == \E i \in 1..Len(message) : message[i] = part

SameStatement ==
  /\ currentStatement # Undefined
  /\ currentStatement' # Undefined
  /\ currentStatement'.statement_id = currentStatement.statement_id

\* C1: getOperationStatus issues exactly one getStatement call, for the
\* tracked statement's id, when a statement is tracked and has no manifest,
\* and no remote call otherwise.  A poll that answers Canceled or Closed
\* leaves no statement tracked, and a statement that has a manifest keeps it
\* for as long as it is tracked, so once a poll has returned a manifest or a
\* Canceled/Closed status no later getOperationStatus polls that statement.
C1_PollsExactlyWithoutManifest ==
  [][ /\ lastOp' = "getOperationStatus" =>
           /\ lastCalls' =
                IF currentStatement # Undefined /\ ~Has(currentStatement, "manifest")
                THEN <<[method |-> "getStatement",
                        statement_id |-> currentStatement.statement_id]>>
                ELSE <<>>
           /\ (/\ Len(lastReplies') = 1
               /\ lastReplies'[1] # Rejected
               /\ lastReplies'[1].status.state \in {"CANCELED", "CLOSED"})
                => currentStatement' = Undefined
      /\ (SameStatement /\ Has(currentStatement, "manifest"))
           => Has(currentStatement', "manifest")
    ]_vars

\* a poll has just returned the manifest of a statement that had none
C1_Witness ==
  /\ lastOp = "getOperationStatus"
  /\ Len(lastCalls) = 1
  /\ Tracked
  /\ Has(currentStatement, "manifest")
  /\ ~lastResp.raised

\* C2: while the tracked statement's status is Failed, executeStatement and
\* getOperationStatus raise an error whose message holds the remote error
\* code and the remote message, whether or not a manifest is attached (a
\* rejected remote call, which delivers no status, aside).
C2_FailedAlwaysRaises ==
  (/\ lastOp \in {"executeStatement", "getOperationStatus"}
   /\ lastReplies # <<Rejected>>
   /\ Tracked
   /\ currentStatement.status.state = "FAILED")
    => /\ lastResp.raised
       /\ Contains(lastResp.message, currentStatement.status.error.error_code)
       /\ Contains(lastResp.message, currentStatement.status.error.message)

\* C3: an executeStatement or getOperationStatus that receives the status
\* Canceled or Closed ends with no statement tracked and returns an
\* invalid-handle or error status without raising; between two operations a
\* tracked statement has a status, whose state is neither Canceled nor Closed.
C3_TerminalStatusClears ==
  /\ (/\ lastOp \in {"executeStatement", "getOperationStatus"}
      /\ Len(lastReplies) = 1
      /\ lastReplies[1] # Rejected
      /\ lastReplies[1].status.state \in {"CANCELED", "CLOSED"})
       => /\ currentStatement = Undefined
          /\ ~lastResp.raised
          /\ lastResp.value.status.statusCode \in {"INVALID_HANDLE_STATUS", "ERROR_STATUS"}
  /\ Tracked
       => /\ Has(currentStatement, "status")
          /\ currentStatement.status.state \notin {"CANCELED", "CLOSED"}

\* a poll of a tracked statement has just answered Closed
C3_Witness ==
  /\ lastOp = "getOperationStatus"
  /\ Len(lastReplies) = 1
  /\ lastReplies[1] # Rejected
  /\ lastReplies[1].status.state = "CLOSED"
  /\ currentStatement = Undefined

InvalidHandleResponse ==
  [raised |-> FALSE,
   value |-> [status |-> [statusCode |-> "ERROR_STATUS", errorMessage |-> <<"Invalid handle">>]]]

NoMoreDataResponse ==
  [raised |-> FALSE,
   value |-> [status |-> [statusCode |-> "ERROR_STATUS", errorMessage |-> <<"No more data">>]]]

SuccessResponse == [raised |-> FALSE, value |-> [status |-> [statusCode |-> "SUCCESS_STATUS"]]]

ReturnedSuccess(response) ==
  ~response.raised /\ response.value.status.statusCode = "SUCCESS_STATUS"

\* the request for the chunk that follows `chunk` of statement `id`
NextChunkRequest(id, chunk) ==
  IF Has(chunk, "next_chunk_index")
  THEN [method |-> "getStatementResultChunkN", statement_id |-> id,
        chunk_index |-> chunk.next_chunk_index]
  ELSE [method |-> "getStatementResultChunkN", statement_id |-> id]

\* C4: the first fetchResults after an executeStatement issues no remote
\* chunk request and consumes the result attached to the statement that
\* executeStatement tracked, whatever was fetched, closed or cancelled before.
C4_FirstFetchTakesStatementResult ==
  [][ (lastOp' = "fetchResults" /\ Tracked /\ ~prevFetch.fetched)
        => /\ lastCalls' = <<>>
           /\ currentResultChunk' =
                IF Has(currentStatement, "result")
                THEN currentStatement.result ELSE Undefined
    ]_vars

\* C5 as stated: every fetchResults on a tracked statement after the first
\* one issues exactly one getStatementResultChunkN request.
C5_EveryLaterFetchRequests ==
  [][ (lastOp' = "fetchResults" /\ Tracked /\ prevFetch.fetched)
        => /\ Len(lastCalls') = 1
           /\ lastCalls'[1].method = "getStatementResultChunkN"
           /\ lastCalls'[1].statement_id = currentStatement.statement_id
    ]_vars

\* C5 amended: a fetchResults that follows a fetchResults that returned a
\* chunk of the same tracked statement issues exactly one
\* getStatementResultChunkN request, carrying the statement's id and that
\* chunk's next_chunk_index; one that follows a fetchResults that returned
\* 'No more data' issues no remote request.
C5_FetchAfterChunkRequestsNext ==
  [][ /\ (/\ lastOp' = "fetchResults"
          /\ Tracked
          /\ prevFetch.fetched
          /\ ReturnedSuccess(prevFetch.response))
           => lastCalls' = <<NextChunkRequest(currentStatement.statement_id, prevFetch.chunk)>>
      /\ (/\ lastOp' = "fetchResults"
          /\ Tracked
          /\ prevFetch.fetched
          /\ prevFetch.response = NoMoreDataResponse)
           => lastCalls' = <<>>
    ]_vars

\* the second fetchResults of the only statement executed so far has asked
\* for chunk 1 and got it
C5_Witness ==
  /\ lastOp = "fetchResults"
  /\ issued = 1
  /\ Tracked
  /\ lastCalls = <<[method |-> "getStatementResultChunkN",
                    statement_id |-> currentStatement.statement_id,
                    chunk_index |-> 1]>>
  /\ ReturnedSuccess(lastResp)

\* C6: a fetchResults on a tracked statement that obtains no chunk (the
\* statement carries no result when its result is taken, or the remote chunk
\* request resolves with nothing) returns the error status 'No more data'
\* with no result rows and does not raise.
C6_NoChunkIsNoMoreData ==
  (/\ lastOp = "fetchResults"
   /\ Tracked
   /\ \/ lastCalls = <<>> /\ ~Has(currentStatement, "result")
      \/ lastReplies = <<Undefined>>)
    => lastResp = NoMoreDataResponse

\* a remote chunk request has resolved with nothing
C6_Witness ==
  /\ lastOp = "fetchResults"
  /\ lastReplies = <<Undefined>>
  /\ lastResp = NoMoreDataResponse

C9_InvalidHandleWithoutStatement ==
  [][ (/\ currentStatement = Undefined
       /\ lastOp' \in {"getResultSetMetadata", "fetchResults", "getOperationStatus"})
        => /\ lastResp' = InvalidHandleResponse
           /\ lastCalls' = <<>>
           /\ UNCHANGED <<session, currentStatement, currentResultChunk>>
    ]_vars

\* getOperationStatus on a driver whose statement was dropped while the chunk
\* cursor was in use
C9_Witness ==
  /\ lastOp = "getOperationStatus"
  /\ currentStatement = Undefined
  /\ currentResultChunk # Undefined
  /\ lastResp = InvalidHandleResponse

\* C10: every unsupported operation raises the 'not implemented' error,
\* issues no remote call and leaves session, tracked statement and chunk
\* cursor as they are, in whatever state it is called.
C10_UnsupportedAlwaysRaises ==
  [][ lastOp' \in {"getInfo", "getTypeInfo", "getCatalogs", "getSchemas", "getTables",
                   "getTableTypes", "getColumns", "getFunctions", "getPrimaryKeys",
                   "getCrossReference", "getDelegationToken", "cancelDelegationToken",
                   "renewDelegationToken"}
        => /\ lastResp' = [raised |-> TRUE, message |-> <<"RestDriver: Method not implemented">>]
           /\ lastCalls' = <<>>
           /\ UNCHANGED <<session, currentStatement, currentResultChunk>>
    ]_vars

\* an unsupported operation called while a statement is tracked and being
\* fetched
C10_Witness ==
  /\ lastOp = "getCrossReference"
  /\ Tracked
  /\ currentResultChunk # Undefined
  /\ session # Undefined
  /\ lastResp.raised

\* ---- C11 ----------------------------------------------------------------
\* C11: every executeStatement issues exactly one remote call, an execute
\* call, that carries the statement text of the request and the catalog and
\* schema of the session stored by the most recent openSession (neither of
\* them when no session is stored: before the first openSession and after a
\* closeSession); openSession stores its request as the session, closeSession
\* forgets the session, no other operation touches it, and both issue no
\* remote call and leave the tracked statement alone.
C11_ExecuteIssuesOneCallOfSession ==
  [][ /\ lastOp' = "executeStatement" =>
           /\ Len(lastCalls') = 1
           /\ lastCalls'[1].method = "executeStatement"
           /\ lastCalls'[1].statement = lastRequest'.statement
           /\ IF session = Undefined
              THEN /\ ~Has(lastCalls'[1], "catalog")
                   /\ ~Has(lastCalls'[1], "schema")
              ELSE /\ Has(lastCalls'[1], "catalog")
                   /\ Has(lastCalls'[1], "schema")
                   /\ lastCalls'[1].catalog = session.initialNamespace.catalogName
                   /\ lastCalls'[1].schema = session.initialNamespace.schemaName
      /\ lastOp' = "openSession" =>
           /\ session' = lastRequest'
           /\ lastCalls' = <<>>
           /\ currentStatement' = currentStatement
      /\ lastOp' = "closeSession" =>
           /\ session' = Undefined
           /\ lastCalls' = <<>>
           /\ currentStatement' = currentStatement
      /\ lastOp' \notin {"openSession", "closeSession"} => session' = session
    ]_vars

\* an execute call of the second statement text under the second session, made
\* while another statement was tracked
C11_Witness ==
  /\ lastOp = "executeStatement"
  /\ lastRequest.statement = "SELECT 2"
  /\ session # Undefined
  /\ Len(lastCalls) = 1
  /\ Has(lastCalls[1], "catalog")
  /\ lastCalls[1].catalog = "c2"
  /\ issued = 2

\* ---- C12 ----------------------------------------------------------------
\* the operation state the specification gives for each remote state
MappedState(state) ==
  IF state \in StatementState
  THEN [CANCELED |-> "CANCELED_STATE", CLOSED |-> "CLOSED_STATE",
        FAILED |-> "ERROR_STATE", PENDING |-> "PENDING_STATE",
        RUNNING |-> "RUNNING_STATE", SUCCEEDED |-> "FINISHED_STATE"][state]
  ELSE "UKNOWN_STATE"

\* C12: the state mapping gives Canceled, Closed, Failed, Pending, Running
\* and Succeeded their CANCELED, CLOSED, ERROR, PENDING, RUNNING and FINISHED
\* operation states and every other value the unknown state, so that only
\* Succeeded is reported as finished; and a successful getOperationStatus
\* response is made from a tracked statement and reports the mapped state of
\* the status that statement holds when the operation returns.
C12_StatusReportsMappedState ==
  /\ \A state \in RemoteStates \cup {"", "succeeded"} :
       /\ restOperationStateToThriftOperationState(state) = MappedState(state)
       /\ restOperationStateToThriftOperationState(state) = "FINISHED_STATE"
            => state = "SUCCEEDED"
  /\ (lastOp = "getOperationStatus" /\ ReturnedSuccess(lastResp)) =>
       /\ Tracked
       /\ lastResp.value.operationState = MappedState(currentStatement.status.state)
       /\ lastResp.value.operationState = "FINISHED_STATE"
            <=> currentStatement.status.state = "SUCCEEDED"

\* a poll answered with a running statement, reported as running
C12_Witness ==
  /\ lastOp = "getOperationStatus"
  /\ Len(lastCalls) = 1
  /\ ReturnedSuccess(lastResp)
  /\ currentStatement.status.state = "RUNNING"
  /\ lastResp.value.operationState = "RUNNING_STATE"

\* ---- C13 ----------------------------------------------------------------
\* the type id the specification gives for each type name
TypeIdOf(typeName) ==
  IF typeName \in ColumnInfoTypeName
  THEN [ARRAY |-> "ARRAY_TYPE", BINARY |-> "BINARY_TYPE", BOOLEAN |-> "BOOLEAN_TYPE",
        BYTE |-> "TINYINT_TYPE", CHAR |-> "CHAR_TYPE", DATE |-> "DATE_TYPE",
        DECIMAL |-> "DECIMAL_TYPE", DOUBLE |-> "DOUBLE_TYPE", FLOAT |-> "FLOAT_TYPE",
        INT |-> "INT_TYPE", INTERVAL |-> "INTERVAL_DAY_TIME_TYPE", LONG |-> "INT_TYPE",
        MAP |-> "MAP_TYPE", NULL |-> "NULL_TYPE", SHORT |-> "SMALLINT_TYPE",
        STRING |-> "STRING_TYPE", STRUCT |-> "STRUCT_TYPE",
        TIMESTAMP |-> "TIMESTAMP_TYPE", USER_DEFINED_TYPE |-> "USER_DEFINED_TYPE"][typeName]
  ELSE "NULL_TYPE"

\* the columns the manifest of the tracked statement lists
SchemaColumns ==
  IF Has(currentStatement, "manifest") /\ Has(currentStatement.manifest, "schema")
  THEN currentStatement.manifest.schema.columns
  ELSE <<>>

\* C13: getResultSetMetadata on a tracked statement returns success with the
\* column-based result format and one column descriptor per manifest column,
\* in manifest order: descriptor i has the name of column i, the position i
\* (the zero-based position plus one) and the type id the type table gives for
\* the column's type name, the null type for a name the table does not know.
C13_MetadataFollowsManifest ==
  (lastOp = "getResultSetMetadata" /\ Tracked) =>
    /\ ReturnedSuccess(lastResp)
    /\ lastResp.value.resultFormat = "COLUMN_BASED_SET"
    /\ LET descs == lastResp.value.schema.columns
       IN  /\ Len(descs) = Len(SchemaColumns)
           /\ \A i \in 1..Len(descs) :
                /\ descs[i].columnName = SchemaColumns[i].name
                /\ descs[i].position = (i - 1) + 1
                /\ Len(descs[i].typeDesc.types) = 1
                /\ descs[i].typeDesc.types[1].primitiveEntry.type
                     = TypeIdOf(SchemaColumns[i].type_name)

\* the metadata of a result of three columns, the third a tinyint
C13_Witness ==
  /\ lastOp = "getResultSetMetadata"
  /\ Tracked
  /\ Len(lastResp.value.schema.columns) = 3
  /\ lastResp.value.schema.columns[3].position = 3
  /\ lastResp.value.schema.columns[3].typeDesc.types[1].primitiveEntry.type = "TINYINT_TYPE"

\* ---- C14 ----------------------------------------------------------------
\* the rows of the chunk the latest fetchResults consumed
ConsumedRows ==
  IF Has(currentResultChunk, "data_array") THEN currentResultChunk.data_array ELSE <<>>

\* the values of column j of a fetchResults response
ValuesOf(response, j) == response.value.results.columns[j].stringVal.values

\* how many of the first r rows have a cell j
CellsUpTo(rows, r, j) == Cardinality({q \in 1..r : Len(rows[q]) >= j})

\* C14 as stated: a successful fetchResults answers one column per schema
\* column, the r-th value of column j is cell j of row r of the consumed chunk
\* for every row r that has a cell j, and hasMoreRows is true exactly when that
\* chunk carries a next-chunk index.
C14_ValueRIsCellOfRowR ==
  (lastOp = "fetchResults" /\ ReturnedSuccess(lastResp)) =>
    /\ Len(lastResp.value.results.columns) = Len(SchemaColumns)
    /\ lastResp.value.results.columnCount = Len(SchemaColumns)
    /\ \A j \in 1..Len(SchemaColumns) : \A r \in 1..Len(ConsumedRows) :
         Len(ConsumedRows[r]) >= j =>
           /\ r <= Len(ValuesOf(lastResp, j))
           /\ ValuesOf(lastResp, j)[r] = ConsumedRows[r][j]
    /\ lastResp.value.hasMoreRows <=> Has(currentResultChunk, "next_chunk_index")

\* C14: a successful fetchResults answers one column per schema column;
\* column j holds cell j of every row of the consumed chunk that has a cell j,
\* in chunk order and nothing else, so that the r-th value of column j is cell
\* j of row r whenever no row before r is shorter than j cells; hasMoreRows is
\* true exactly when the consumed chunk carries a next-chunk index.
C14_ColumnsCollectCellsInRowOrder ==
  (lastOp = "fetchResults" /\ ReturnedSuccess(lastResp)) =>
    /\ Len(lastResp.value.results.columns) = Len(SchemaColumns)
    /\ lastResp.value.results.columnCount = Len(SchemaColumns)
    /\ \A j \in 1..Len(SchemaColumns) :
         /\ Len(ValuesOf(lastResp, j)) = CellsUpTo(ConsumedRows, Len(ConsumedRows), j)
         /\ \A r \in 1..Len(ConsumedRows) :
              Len(ConsumedRows[r]) >= j =>
                ValuesOf(lastResp, j)[CellsUpTo(ConsumedRows, r, j)] = ConsumedRows[r][j]
         /\ \A r \in 1..Len(ConsumedRows) :
              (Len(ConsumedRows[r]) >= j /\ CellsUpTo(ConsumedRows, r, j) = r) =>
                ValuesOf(lastResp, j)[r] = ConsumedRows[r][j]
    /\ lastResp.value.hasMoreRows <=> Has(currentResultChunk, "next_chunk_index")

\* a chunk whose second row is one cell short, with a successor: the second
\* column holds the second cells of the first and the third row
C14_Witness ==
  /\ lastOp = "fetchResults"
  /\ ReturnedSuccess(lastResp)
  /\ Len(SchemaColumns) = 2
  /\ Len(ConsumedRows) = 3
  /\ Len(ConsumedRows[2]) = 1
  /\ ValuesOf(lastResp, 1) = <<"a", "c", "d">>
  /\ ValuesOf(lastResp, 2) = <<"b", "e">>
  /\ lastResp.value.hasMoreRows

\* ---- C15 ----------------------------------------------------------------
\* C15: a fetchResults that consumes a chunk with rows, on a tracked statement
\* whose manifest has no schema or whose schema has fewer columns than some
\* row has cells, does not raise: it returns success with one column per
\* schema column, no column when the schema is missing.
C15_RowsBeyondSchemaStillSucceed ==
  ( /\ lastOp = "fetchResults"
    /\ Tracked
    /\ lastReplies # <<Rejected>>
    /\ currentResultChunk # Undefined
    /\ Len(ConsumedRows) > 0
    /\ \/ ~(Has(currentStatement, "manifest") /\ Has(currentStatement.manifest, "schema"))
       \/ \E r \in 1..Len(ConsumedRows) : Len(ConsumedRows[r]) > Len(SchemaColumns) )
  => /\ ~lastResp.raised
     /\ ReturnedSuccess(lastResp)
     /\ Len(lastResp.value.results.columns) = Len(SchemaColumns)

\* ---- C16 ----------------------------------------------------------------
\* the REST client rejected a call of the operation that has just run
RemoteCallFailed(replies) == \E i \in 1..Len(replies) : replies[i] = Rejected

\* C16: when the remote call of an operation fails, the operation is one of
\* executeStatement, getOperationStatus, fetchResults and cancelOperation, it
\* raises that failure, it has issued that one call only, and the session,
\* the tracked statement and the chunk cursor are what they were before it.
C16_FailedCallRaisedAndStateKept ==
  [][ RemoteCallFailed(lastReplies') =>
        /\ lastOp' \in {"executeStatement", "getOperationStatus", "fetchResults", "cancelOperation"}
        /\ lastResp' = Raise(RemoteFailure)
        /\ Len(lastCalls') = 1
        /\ session' = session
        /\ currentStatement' = currentStatement
        /\ currentResultChunk' = currentResultChunk
        /\ issued' = issued
    ]_vars

\* a cancelOperation whose remote call failed, the statement and its chunk
\* cursor still in place
C16_Witness ==
  /\ lastOp = "cancelOperation"
  /\ RemoteCallFailed(lastReplies)
  /\ lastResp = Raise(RemoteFailure)
  /\ Tracked
  /\ currentResultChunk # Undefined

\* ---- C18 ----------------------------------------------------------------
\* C18, for fetchResults calls that follow one another directly: when a
\* fetchResults on a tracked statement has returned 'No more data', the
\* fetchResults called next on that statement returns 'No more data' too; it
\* does not hand out the statement's first chunk again.
C18_NoMoreDataStays ==
  [][ ( /\ lastOp = "fetchResults"
        /\ lastResp = NoMoreDataResponse
        /\ Tracked
        /\ lastOp' = "fetchResults"
        /\ SameStatement )
      => lastResp' = NoMoreDataResponse
    ]_vars

\* ---- C19 ----------------------------------------------------------------
\* C19: every getStatementResultChunkN request of a fetchResults carries a
\* chunk index, and a fetchResults that finds in the cursor a chunk without
\* next-chunk index issues no remote call.
C19_ChunkRequestsCarryAnIndex ==
  [][ lastOp' = "fetchResults" =>
        /\ \A i \in 1..Len(lastCalls') : Has(lastCalls'[i], "chunk_index")
        /\ (Tracked /\ currentResultChunk # Undefined
              /\ ~Has(currentResultChunk, "next_chunk_index"))
             => lastCalls' = <<>>
    ]_vars

\* ---- C17 ----------------------------------------------------------------
\* the step resumes the i-th suspended operation
Resumes(i) == i \in 1..Len(suspended) /\ suspended' = Without(suspended, i)

\* C17 as stated: the driver never has two remote calls in flight, and an
\* operation that resumes after its remote call finds the tracked statement
\* it started with.
C17_OneOperationAtATime ==
  [][ /\ Len(suspended') <= 1
      /\ \A i \in 1..Len(suspended) :
           Resumes(i) => currentStatement = suspended[i].started
    ]_vars

\* C17: the driver does not serialise its operations, the caller has to: an
\* operation whose remote call is the only one in flight and that resumes
\* before the caller has called anything else finds the tracked statement it
\* started with and does not fail on a missing statement.
C17_AwaitedOperationFindsItsStatement ==
  [][ \A i \in 1..Len(suspended) :
        (Resumes(i) /\ Len(suspended) = 1 /\ lastResp = Awaiting) =>
          /\ lastOp = suspended[i].op
          /\ lastCalls = <<suspended[i].call>>
          /\ currentStatement = suspended[i].started
          /\ lastResp' # Raise(StatementTypeError)
    ]_vars

\* a getOperationStatus that has resumed with the status of a succeeded
\* statement and stored it in the statement it had polled
C17_Witness ==
  /\ lastOp = "getOperationStatus"
  /\ Len(lastReplies) = 1
  /\ lastReplies[1] # Rejected
  /\ suspended = <<>>
  /\ ReturnedSuccess(lastResp)
  /\ Tracked
  /\ currentStatement.statement_id = 1
  /\ currentStatement.status.state = "SUCCEEDED"
  /\ issued = 1

\* ---- C20 ----------------------------------------------------------------
\* the flag of a helper that may not exist yet
Flag(h, flag) == h # Undefined /\ h[flag]

\* the driver answered the latest method of helper h with a successful status
AnsweredSuccess(h) ==
  /\ h.reply \in DriverResponses
  /\ h.reply.status.statusCode \in SuccessCodes

====
